---- MODULE Spec2Model ----
(***************************************************************************)
(* Model of src/renderer/App.tsx: the query catalogue, the request the     *)
(* fetcher builds for one query definition, the promise chain that decodes *)
(* the answer of the metrics service, the fan-out over the catalogue with  *)
(* Promise.all, and the effect of App that stores the aggregated result in *)
(* data_signal.                                                            *)
(*                                                                         *)
(* JavaScript values are modelled as records.  A missing optional property *)
(* is a missing record field (Has).  undefined, null and arrays are tagged *)
(* records, because a field must hold values of one kind throughout.       *)
(* Time is counted in hours; a Date is a record holding a UTC instant or   *)
(* the invalid date.  A query string is modelled by its decoded parameter  *)
(* record, so URL-encoding and decoding do not appear.                     *)
(***************************************************************************)
EXTENDS Integers, Sequences, FiniteSets, TLC

VARIABLES
    queries,        \* the instant-mode catalogue (const, line 26)
    range_queries,  \* the range-mode catalogue (const, line 61)
    clock,          \* the wall clock read by new Date()
    pc,             \* position of the effect of App
    next,           \* catalogue position the two map() calls have reached
    http,           \* the HTTP GETs issued so far, in order of issue
    responses,      \* per pairing: what the network answered
    fetches,        \* per pairing: the promise of fetch_prometheus_data
    entries,        \* per pairing: the promise of the async map callback
    values,         \* the result array Promise.all fills
    all_promise,    \* the promise fetch_all_prometheus_data returns
    data_signal,    \* the signal of line 6
    writes,         \* number of assignments to data_signal.value
    mounts,         \* number of times React has mounted App
    rendered,       \* the text App last rendered, line 156
    second          \* the state of a second call of fetch_all_prometheus_data

vars == <<queries, range_queries, clock, pc, next, http, responses, fetches,
          entries, values, all_promise, data_signal, writes, mounts, rendered,
          second>>

----------------------------------------------------------------------------
(* Bounds *)

NumInstant == 2
NumRange == 1
MaxTicks == 2

----------------------------------------------------------------------------
(* JavaScript values *)

Undefined == [type |-> "undefined"]
Null == [type |-> "null"]
Arr(s) == [type |-> "array", items |-> s]
NaN == [nan |-> TRUE]
Num(n) == [num |-> n]
InvalidDate == [invalid |-> TRUE]
Date(t) == [time |-> t]

Has(obj, f) == f \in DOMAIN obj

Err(n, m) == [name |-> n, message |-> m]

Pending == [state |-> "pending"]
Unstarted == [state |-> "unstarted"]
Fulfilled(v) == [state |-> "fulfilled", value |-> v]
Rejected(e) == [state |-> "rejected", reason |-> e]

----------------------------------------------------------------------------
(* The catalogue, lines 26-87 *)

ShippedQueries ==
    << [label |-> "Free CPUs (non-GPU) by location",
        name |-> "cpus_free",
        query |-> "sum(slurm_node_cpus{state=\"free\",nodes!=\"gpu\"}) by (cluster,nodes)"],
       [label |-> "Allocated CPUs (non-GPU) by location",
        name |-> "cpus_allocated",
        query |-> "sum(slurm_node_cpus{state=\"alloc\",nodes!=\"gpu\"}) by (cluster,nodes)"],
       [label |-> "Percent Free CPUs (non-GPU) by location",
        name |-> "cpus_percent_free",
        query |-> "sum(slurm_node_cpus{state=\"free\",nodes!=\"gpu\"}) by (cluster,nodes) / sum(slurm_node_cpus{nodes!=\"gpu\"}) by (cluster,nodes)"],
       [label |-> "GPUs free by location",
        name |-> "gpus_free",
        query |-> "sum(slurm_node_gpus{state=\"free\",nodes=\"gpu\"}) by (cluster)"],
       [label |-> "GPUs allocated by location",
        name |-> "gpus_allocated",
        query |-> "sum(slurm_node_gpus{state=\"alloc\",nodes=\"gpu\"}) by (cluster)"],
       [label |-> "Slurm pending job requests",
        name |-> "slurm_pending_jobs",
        query |-> "sum(slurm_job_count{state=\"pending\"}) by (account)"] >>

ShippedRangeQueries ==
    << [label |-> "Rusty queue wait time over 24 hours",
        name |-> "rusty_wait_time",
        query |-> "sum(slurm_job_seconds{cluster=\"iron\",state=\"pending\"}) by (account)",
        range_offset |-> 1, range_unit |-> "day", range_step |-> "15m"],
       [label |-> "Rusty queue length over 24 hours",
        name |-> "rusty_queue_length",
        query |-> "sum(slurm_job_count{state=\"pending\"}) by (account)",
        range_offset |-> 1, range_unit |-> "day", range_step |-> "15m"],
       [label |-> "Node counts by center for the last 7 Days",
        name |-> "node_count",
        query |-> "sum(slurm_job_nodes{state=\"running\"}) by (account)",
        range_offset |-> 7, range_unit |-> "day", range_step |-> "90m"] >>

\* The catalogue is checked on the first NumInstant entries of queries and
\* the last NumRange entries of range_queries, each in its shipped order.
Min(a, b) == IF a < b THEN a ELSE b
CatalogueQueries == SubSeq(ShippedQueries, 1, Min(NumInstant, Len(ShippedQueries)))
CatalogueRangeQueries ==
    SubSeq(ShippedRangeQueries,
           Len(ShippedRangeQueries) - Min(NumRange, Len(ShippedRangeQueries)) + 1,
           Len(ShippedRangeQueries))

N == Len(queries)
M == Len(range_queries)
Pairings == 1 .. (N + M)

\* The pairing at catalogue position i: the queries first, then the
\* range_queries, as [...non_range_data, ...range_data] lists them.
QueryAt(i) == IF i <= N THEN queries[i] ELSE range_queries[i - N]
IsRangeAt(i) == i > N

----------------------------------------------------------------------------
(* Dates.  new Date() reads the clock; d3.timeDay.offset(date, step) is     *)
(* date.setDate(date.getDate() + Math.floor(step)) on a copy, that is day   *)
(* arithmetic on the LOCAL calendar; toISOString prints the UTC instant and *)
(* throws a RangeError on the invalid date.  The local zone moves its       *)
(* clocks one hour forward at the instant DstAt.                            *)

HoursPerDay == 24
DstAt == 1000
ClockStart == DstAt - 1

UtcOffset(t) == IF t >= DstAt THEN 1 ELSE 0
UtcToLocal(t) == t + UtcOffset(t)
\* A local time in the skipped hour is read with the offset before the change.
LocalToUtc(l) == IF l - 1 >= DstAt THEN l - 1 ELSE l

\* The offset with the sign lost.
NegateForgotten(q, f) == IF Has(q, f) THEN Num(q[f]) ELSE NaN

\* -query_object.range_offset: the negation of undefined is NaN.
Negate(q, f) == IF Has(q, f) THEN Num(0 - q[f]) ELSE NaN

timeDay_offset(date, step) ==
    IF Has(date, "invalid") \/ Has(step, "nan")
    THEN InvalidDate
    ELSE Date(LocalToUtc(UtcToLocal(date.time) + step.num * HoursPerDay))

toISOString(date) == [iso |-> date.time]

\* URLSearchParams.set(name, value) stores String(value).
StringOf(q, f) == IF Has(q, f) THEN q[f] ELSE "undefined"

----------------------------------------------------------------------------
(* fetch_prometheus_data, lines 97-113: the request URL *)

InstantEndpoint == "http://prometheus.flatironinstitute.org/api/v1/query"
RangeEndpoint == "http://prometheus.flatironinstitute.org/api/v1/query_range"

\* The two endpoints the wrong way round.
base_swapped(is_range_query) ==
    IF is_range_query THEN InstantEndpoint ELSE RangeEndpoint

base(is_range_query) == IF is_range_query THEN RangeEndpoint ELSE InstantEndpoint

\* Parameters that never carry the time window.
search_params_query_only(query_object, is_range_query, now) ==
    [threw |-> FALSE, params |-> [query |-> query_object.query]]

\* Lines 101-112.  The result is either the parameters or the exception the
\* statements raise.
search_params(query_object, is_range_query, now) ==
    LET end == Date(now)
        start == timeDay_offset(end, Negate(query_object, "range_offset"))
    IN  IF is_range_query /\ Has(query_object, "range_unit")
                          /\ query_object.range_unit = "day"
        THEN IF Has(start, "invalid")
             THEN [threw |-> TRUE,
                   error |-> Err("RangeError", "Invalid time value")]
             ELSE [threw |-> FALSE,
                   params |-> [query |-> query_object.query,
                               start |-> toISOString(start),
                               end |-> toISOString(end),
                               step |-> StringOf(query_object, "range_step")]]
        ELSE [threw |-> FALSE, params |-> [query |-> query_object.query]]

\* Lines 97-113: the URL handed to d3.json, or the exception raised before.
build_url(query_object, is_range_query, now) ==
    LET sp == search_params(query_object, is_range_query, now)
    IN  IF sp.threw
        THEN sp
        ELSE [threw |-> FALSE,
              url |-> [base |-> base(is_range_query), search |-> sp.params]]

----------------------------------------------------------------------------
(* What the network can answer to one GET *)

Series1 == [metric |-> [cluster |-> "x"], value |-> <<1700000000, "4">>]
Series2 == [metric |-> [cluster |-> "y"], value |-> <<1700000000, "7">>]
Results == {Arr(<< >>), Arr(<<Series1>>), Arr(<<Series1, Series2>>)}
Messages == {"bad query", "query timed out"}

Unparseable == [type |-> "unparseable"]
ErrorEnvelope(m) == [status |-> "error", errorType |-> "bad_data", error |-> m]
SuccessEnvelope(r) ==
    [status |-> "success", data |-> [resultType |-> "vector", result |-> r]]

Bodies ==
    {ErrorEnvelope(m) : m \in Messages}
    \cup {SuccessEnvelope(r) : r \in Results}
    \cup {Null,
          [status |-> "success"],
          [status |-> "success", data |-> [resultType |-> "vector"]]}

NetworkError == [network_error |-> "Failed to fetch"]
HttpResponse(code, text, body) ==
    [status |-> code, statusText |-> text, body |-> body]

Responses ==
    {NetworkError,
     HttpResponse(400, "Bad Request", ErrorEnvelope("bad query")),
     HttpResponse(204, "No Content", Unparseable)}
    \cup {HttpResponse(200, "OK", b) : b \in Bodies \cup {Unparseable}}

----------------------------------------------------------------------------
(* fetch_prometheus_data, lines 115-126: the promise chain *)

Return(v) == [threw |-> FALSE, value |-> v]
Throw(e) == [threw |-> TRUE, error |-> e]
Settled(r) == IF r.threw THEN Rejected(r.error) ELSE Fulfilled(r.value)

\* d3.json(url), lines 115-116: fetch(url), then "if (!response.ok) throw
\* new Error(status + ' ' + statusText)", then no body on 204 and 205, then
\* response.json().
d3_json(response) ==
    IF Has(response, "network_error")
    THEN Rejected(Err("TypeError", response.network_error))
    ELSE IF response.status \notin 200 .. 299
    THEN Rejected(Err("Error", ToString(response.status) \o " "
                                   \o response.statusText))
    ELSE IF response.status \in {204, 205}
    THEN Fulfilled(Undefined)
    ELSE IF response.body = Unparseable
    THEN Rejected(Err("SyntaxError", "Unexpected token in JSON"))
    ELSE Fulfilled(response.body)

\* A callback that returns body.data instead of body.data.result.
on_body_data(body) ==
    IF body \in {Undefined, Null}
    THEN Throw(Err("TypeError", "Cannot read properties of " \o body.type))
    ELSE IF Has(body, "status") /\ body.status = "success"
    THEN IF ~Has(body, "data")
         THEN Throw(Err("TypeError", "Cannot read properties of undefined"))
         ELSE Return(body.data)
    ELSE Throw(Err("Error", "Prometheus error: " \o StringOf(body, "error")))

\* A callback that returns the series in reverse order.
on_body_reversed(body) ==
    IF body \in {Undefined, Null}
    THEN Throw(Err("TypeError", "Cannot read properties of " \o body.type))
    ELSE IF Has(body, "status") /\ body.status = "success"
    THEN IF ~Has(body, "data")
         THEN Throw(Err("TypeError", "Cannot read properties of undefined"))
         ELSE IF Has(body.data, "result")
              THEN Return(Arr([k \in 1 .. Len(body.data.result.items) |->
                                 body.data.result.items[
                                     Len(body.data.result.items) + 1 - k]]))
              ELSE Return(Undefined)
    ELSE Throw(Err("Error", "Prometheus error: " \o StringOf(body, "error")))

\* The callback of .then, lines 117-124.
on_body(body) ==
    IF body \in {Undefined, Null}
    THEN Throw(Err("TypeError", "Cannot read properties of " \o body.type))
    ELSE IF Has(body, "status") /\ body.status = "success"
    THEN IF ~Has(body, "data")
         THEN Throw(Err("TypeError", "Cannot read properties of undefined"))
         ELSE IF Has(body.data, "result")
              THEN Return(body.data.result)
              ELSE Return(Undefined)
    ELSE Throw(Err("Error", "Prometheus error: " \o StringOf(body, "error")))

\* A handler that logs and throws the error again.
on_error_rethrow(err) == Throw(err)

\* A handler that answers a failure with the empty list.
on_error_empty(err) == Return(Arr(<< >>))

\* The callback of .catch, line 126: console.log returns undefined.
on_error(err) == Return(Undefined)

\* The promise .then(...) of lines 117-124 yields for an answer.
decoded(response) ==
    LET p == d3_json(response)
    IN  IF p.state = "fulfilled" THEN Settled(on_body(p.value)) ELSE p

\* The promise fetch_prometheus_data settles to once the answer is in:
\* the chain of lines 115-126.
fetch_result(response) ==
    LET p == decoded(response)
    IN  IF p.state = "rejected" THEN Settled(on_error(p.reason)) ELSE p

----------------------------------------------------------------------------
(* fetch_all_prometheus_data, lines 129-141, and the effect of App,        *)
(* lines 147-157.  JavaScript runs a callback to completion: the effect    *)
(* (Mount, Issue, PromiseAll) is not interleaved with the handling of an   *)
(* answer (Settle) or with the callback of .then (Deliver).                *)

NoResponse == [none |-> TRUE]
Hole == [hole |-> TRUE]

\* { query: query_object, data: await ... }, lines 130-138.
Entry(query_object, data) == [query |-> query_object, data |-> data]

\* A fetcher that sends every GET a second time.
IssuedRequestsTwice(i, url) ==
    << [pairing |-> i, url |-> url], [pairing |-> i, url |-> url] >>

\* The GETs one call of d3.json(url) sends, lines 115-116.
IssuedRequests(i, url) == << [pairing |-> i, url |-> url] >>

\* A loop that awaits each fetch before it starts the next.
AwaitSuspendsMapSequential == TRUE

\* Whether the await of lines 132 and 137 holds up the enclosing map():
\* it suspends only the async callback it stands in.
AwaitSuspendsMap == FALSE

\* A collector that appends in order of completion.
CollectInCompletionOrder(vals, i, v) ==
    [vals EXCEPT ![CHOOSE k \in DOMAIN vals :
                      /\ vals[k] = Hole
                      /\ \A j \in DOMAIN vals : vals[j] = Hole => k <= j] = v]

\* Promise.all, line 140: the value of input i is stored at index i.
Collect(vals, i, v) == [vals EXCEPT ![i] = v]

Remaining(vals) == Cardinality({i \in DOMAIN vals : vals[i] = Hole})

\* A callback that throws when its fetch gave the failure mark.
entry_promise_strict(query_object, fetched) ==
    IF fetched.state = "fulfilled" /\ fetched.value # Undefined
    THEN Fulfilled(Entry(query_object, fetched.value))
    ELSE Rejected(Err("Error", "no data"))

\* The promise of the async callback of map(), lines 130-138, given the
\* promise of the fetch it awaits.
entry_promise(query_object, fetched) ==
    IF fetched.state = "fulfilled"
    THEN Fulfilled(Entry(query_object, fetched.value))
    ELSE fetched

\* A combinator that resolves as soon as one value is in.
all_state_eager(es, vals) ==
    IF \E i \in DOMAIN es : es[i].state = "rejected"
    THEN Rejected(es[CHOOSE i \in DOMAIN es : es[i].state = "rejected"].reason)
    ELSE IF Remaining(vals) < Len(vals) THEN Fulfilled(vals) ELSE Pending

\* Promise.all, line 140, once its inputs have the states es and it has
\* collected vals: rejected with the first rejection, fulfilled when no
\* value is missing.
all_state(es, vals) ==
    IF \E i \in DOMAIN es : es[i].state = "rejected"
    THEN Rejected(es[CHOOSE i \in DOMAIN es : es[i].state = "rejected"].reason)
    ELSE IF Remaining(vals) = 0 THEN Fulfilled(vals) ELSE Pending

\* A loaded flag that asks for one entry with data.
data_loaded_some_success ==
    \E i \in DOMAIN data_signal : data_signal[i].data # Undefined

\* A loaded flag that does not look at the length.
data_loaded_always == Len(data_signal) >= 0

\* data_loaded_signal, lines 8-10.
data_loaded_signal == Len(data_signal) > 0

EventLoopFree ==
    \/ pc = "waiting"
    \/ /\ pc = "map"
       /\ AwaitSuspendsMap
       /\ next > 1
       /\ entries[next - 1].state = "pending"

\* A call of fetch_all_prometheus_data that has not begun, over k pairings.
NoCall(k) ==
    [pc |-> "unmounted", next |-> 1, http |-> << >>,
     responses |-> [i \in 1 .. k |-> NoResponse],
     fetches |-> [i \in 1 .. k |-> Unstarted],
     entries |-> [i \in 1 .. k |-> Unstarted],
     values |-> << >>,
     all_promise |-> Unstarted]

\* data_loaded_signal.value.toString(), line 156.
LoadedText == IF data_loaded_signal THEN "true" ELSE "false"

InitWith(qs, rqs) ==
    /\ queries = qs
    /\ range_queries = rqs
    /\ clock = ClockStart
    /\ pc = "unmounted"
    /\ next = 1
    /\ http = << >>
    /\ responses = [i \in 1 .. (Len(qs) + Len(rqs)) |-> NoResponse]
    /\ fetches = [i \in 1 .. (Len(qs) + Len(rqs)) |-> Unstarted]
    /\ entries = [i \in 1 .. (Len(qs) + Len(rqs)) |-> Unstarted]
    /\ values = << >>
    /\ all_promise = Unstarted
    /\ data_signal = << >>
    /\ writes = 0
    /\ mounts = 0
    /\ rendered = ""
    /\ second = NoCall(Len(qs) + Len(rqs))

Init == InitWith(CatalogueQueries, CatalogueRangeQueries)

\* The clock advances.
Tick ==
    /\ clock < ClockStart + MaxTicks
    /\ clock' = clock + 1
    /\ UNCHANGED <<queries, range_queries, pc, next, http, responses, fetches,
                   entries, values, all_promise, data_signal, writes, mounts,
                   rendered, second>>

\* React mounts App: the first render, line 156, and then the effect of
\* lines 148-155.
Mount ==
    /\ pc = "unmounted"
    /\ pc' = "map"
    /\ mounts' = mounts + 1
    /\ rendered' = LoadedText
    /\ UNCHANGED <<queries, range_queries, clock, next, http, responses,
                   fetches, entries, values, all_promise, data_signal, writes,
                   second>>

\* One call of the async callback of map(), lines 130-138, up to its await:
\* fetch_prometheus_data builds the URL and calls d3.json, or throws.
Issue(i) ==
    /\ pc = "map"
    /\ next = i
    /\ i \in Pairings
    /\ (AwaitSuspendsMap /\ i > 1) => entries[i - 1].state # "pending"
    /\ LET u == build_url(QueryAt(i), IsRangeAt(i), clock)
       IN  IF u.threw
           THEN /\ http' = http
                /\ fetches' = [fetches EXCEPT ![i] = Rejected(u.error)]
                /\ entries' = [entries EXCEPT ![i] = Rejected(u.error)]
           ELSE /\ http' = http \o IssuedRequests(i, u.url)
                /\ fetches' = [fetches EXCEPT ![i] = Pending]
                /\ entries' = [entries EXCEPT ![i] = Pending]
    /\ next' = i + 1
    /\ UNCHANGED <<queries, range_queries, clock, pc, responses, values,
                   all_promise, data_signal, writes, mounts, rendered, second>>

\* Promise.all([...non_range_data, ...range_data]), line 140, and
\* .then(...) of line 151; the effect returns.
PromiseAll ==
    /\ pc = "map"
    /\ next = N + M + 1
    /\ (AwaitSuspendsMap /\ next > 1) => entries[next - 1].state # "pending"
    /\ LET vals == [i \in Pairings |->
                      IF entries[i].state = "fulfilled"
                      THEN entries[i].value ELSE Hole]
       IN  /\ values' = vals
           /\ all_promise' = all_state(entries, vals)
    /\ pc' = "waiting"
    /\ UNCHANGED <<queries, range_queries, clock, next, http, responses,
                   fetches, entries, data_signal, writes, mounts, rendered,
                   second>>

\* The answer r to the GET of pairing i arrives and the chain of lines
\* 115-126 runs; the async callback of map() resumes and Promise.all
\* takes its value.
Settle(i, r) ==
    /\ EventLoopFree
    /\ second.pc # "map"
    /\ i \in Pairings
    /\ fetches[i].state = "pending"
    /\ LET fetched == fetch_result(r)
           e == entry_promise(QueryAt(i), fetched)
           es == [entries EXCEPT ![i] = e]
           vals == IF all_promise.state = "unstarted" \/ e.state # "fulfilled"
                   THEN values
                   ELSE Collect(values, i, e.value)
       IN  /\ responses' = [responses EXCEPT ![i] = r]
           /\ fetches' = [fetches EXCEPT ![i] = fetched]
           /\ entries' = es
           /\ values' = vals
           /\ all_promise' = IF all_promise.state = "pending"
                             THEN all_state(es, vals)
                             ELSE all_promise
    /\ UNCHANGED <<queries, range_queries, clock, pc, next, http, data_signal,
                   writes, mounts, rendered, second>>

\* The callback of .then, lines 151-154.
Deliver ==
    /\ pc = "waiting"
    /\ second.pc # "map"
    /\ all_promise.state = "fulfilled"
    /\ data_signal' = all_promise.value
    /\ writes' = writes + 1
    /\ pc' = "done"
    /\ UNCHANGED <<queries, range_queries, clock, next, http, responses,
                   fetches, entries, values, all_promise, mounts, rendered,
                   second>>

\* A render that is not the first of its mount runs the effect again.
effect_runs_every_render(first_render) == TRUE

\* useEffect(..., []), lines 148-155: with the empty dependency list the
\* effect runs after the first render of a mount only.
effect_runs(first_render) == first_render

\* The value of data_loaded_signal that App read has changed: App renders
\* again, line 156.  An effect that runs calls fetch_all_prometheus_data
\* once more.
Rerender ==
    /\ pc \in {"waiting", "done"}
    /\ second.pc # "map"
    /\ rendered # LoadedText
    /\ rendered' = LoadedText
    /\ second' = IF effect_runs(FALSE) /\ second.pc = "unmounted"
                 THEN [second EXCEPT !.pc = "map"]
                 ELSE second
    /\ UNCHANGED <<queries, range_queries, clock, pc, next, http, responses,
                   fetches, entries, values, all_promise, data_signal, writes,
                   mounts>>

Next ==
    \/ Tick
    \/ Mount
    \/ \E i \in Pairings : Issue(i)
    \/ PromiseAll
    \/ \E i \in Pairings : \E r \in Responses : Settle(i, r)
    \/ Deliver
    \/ Rerender

Spec == Init /\ [][Next]_vars

----------------------------------------------------------------------------
(* The same program over catalogues of arbitrary query definitions: one    *)
(* instant-mode and one range-mode entry each.                             *)

Definitions(name) ==
    LET d == [label |-> "label of " \o name, name |-> name, query |-> "up"]
        with(r) == [f \in DOMAIN d \cup DOMAIN r |->
                      IF f \in DOMAIN r THEN r[f] ELSE d[f]]
    IN  {d,
         with([range_offset |-> 2, range_unit |-> "day", range_step |-> "5m"]),
         with([range_offset |-> 1, range_unit |-> "week", range_step |-> "5m"]),
         with([range_unit |-> "day", range_step |-> "5m"]),
         with([range_offset |-> 1, range_unit |-> "day"])}

InitDefs ==
    \E d1 \in Definitions("a"), d2 \in Definitions("b") :
        InitWith(<<d1>>, <<d2>>)

SpecDefs == InitDefs /\ [][Next]_vars

----------------------------------------------------------------------------
(* A second call of fetch_all_prometheus_data while the module is loaded:  *)
(* the host unmounts App and mounts it again, at any moment after the      *)
(* first effect has returned.  The call runs the same code, lines 129-141  *)
(* and 151-154, on its own promises; data_signal belongs to the module and *)
(* is shared.                                                              *)

\* A result array kept at module level and shared by the calls.
ResultArrayShared(own, other) == IF other = << >> THEN own ELSE other

\* Promise.all, line 140, allocates the result array of its call.
ResultArray(own, other) == own

CallFree(c) ==
    \/ c.pc = "waiting"
    \/ /\ c.pc = "map"
       /\ AwaitSuspendsMap
       /\ c.next > 1
       /\ c.entries[c.next - 1].state = "pending"

\* The host mounts App again: first render and effect of the new instance.
Remount ==
    /\ pc \in {"waiting", "done"}
    /\ second.pc = "unmounted"
    /\ second' = [second EXCEPT !.pc = "map"]
    /\ mounts' = mounts + 1
    /\ rendered' = LoadedText
    /\ UNCHANGED <<queries, range_queries, clock, pc, next, http, responses,
                   fetches, entries, values, all_promise, data_signal, writes>>

\* Lines 130-138 up to the await, in the second call.
Issue2(i) ==
    /\ second.pc = "map"
    /\ second.next = i
    /\ i \in Pairings
    /\ (AwaitSuspendsMap /\ i > 1) => second.entries[i - 1].state # "pending"
    /\ LET u == build_url(QueryAt(i), IsRangeAt(i), clock)
       IN  second' =
             IF u.threw
             THEN [second EXCEPT !.fetches[i] = Rejected(u.error),
                                 !.entries[i] = Rejected(u.error),
                                 !.next = i + 1]
             ELSE [second EXCEPT !.http = @ \o IssuedRequests(i, u.url),
                                 !.fetches[i] = Pending,
                                 !.entries[i] = Pending,
                                 !.next = i + 1]
    /\ UNCHANGED <<queries, range_queries, clock, pc, next, http, responses,
                   fetches, entries, values, all_promise, data_signal, writes,
                   mounts, rendered>>

\* Line 140 and .then of line 151, in the second call.
PromiseAll2 ==
    /\ second.pc = "map"
    /\ second.next = N + M + 1
    /\ (AwaitSuspendsMap /\ second.next > 1) =>
          second.entries[second.next - 1].state # "pending"
    /\ LET vals == [i \in Pairings |->
                      IF second.entries[i].state = "fulfilled"
                      THEN second.entries[i].value ELSE Hole]
       IN  second' = [second EXCEPT !.values = vals,
                                    !.all_promise = all_state(second.entries, vals),
                                    !.pc = "waiting"]
    /\ UNCHANGED <<queries, range_queries, clock, pc, next, http, responses,
                   fetches, entries, values, all_promise, data_signal, writes,
                   mounts, rendered>>

\* The answer r to the GET of pairing i of the second call arrives.
Settle2(i, r) ==
    /\ CallFree(second)
    /\ pc # "map"
    /\ i \in Pairings
    /\ second.fetches[i].state = "pending"
    /\ LET fetched == fetch_result(r)
           e == entry_promise(QueryAt(i), fetched)
           es == [second.entries EXCEPT ![i] = e]
           vals == IF second.all_promise.state = "unstarted"
                      \/ e.state # "fulfilled"
                   THEN second.values
                   ELSE Collect(ResultArray(second.values, values), i, e.value)
       IN  second' = [second EXCEPT
                        !.responses[i] = r,
                        !.fetches[i] = fetched,
                        !.entries = es,
                        !.values = vals,
                        !.all_promise = IF second.all_promise.state = "pending"
                                        THEN all_state(es, vals)
                                        ELSE second.all_promise]
    /\ UNCHANGED <<queries, range_queries, clock, pc, next, http, responses,
                   fetches, entries, values, all_promise, data_signal, writes,
                   mounts, rendered>>

\* The callback of .then, lines 151-154, of the second call.
Deliver2 ==
    /\ second.pc = "waiting"
    /\ pc # "map"
    /\ second.all_promise.state = "fulfilled"
    /\ data_signal' = second.all_promise.value
    /\ writes' = writes + 1
    /\ second' = [second EXCEPT !.pc = "done"]
    /\ UNCHANGED <<queries, range_queries, clock, pc, next, http, responses,
                   fetches, entries, values, all_promise, mounts, rendered>>

\* The steps of both calls; the clock stands still.
NextTwo ==
    \/ Mount
    \/ \E i \in Pairings : Issue(i)
    \/ PromiseAll
    \/ \E i \in Pairings : \E r \in Responses : Settle(i, r)
    \/ Deliver
    \/ Rerender
    \/ Remount
    \/ \E i \in Pairings : Issue2(i)
    \/ PromiseAll2
    \/ \E i \in Pairings : \E r \in Responses : Settle2(i, r)
    \/ Deliver2

\* The first entry of queries and the last of range_queries.
InitSmall ==
    InitWith(SubSeq(ShippedQueries, 1, 1),
             SubSeq(ShippedRangeQueries, Len(ShippedRangeQueries),
                    Len(ShippedRangeQueries)))

SpecTwo == InitSmall /\ [][NextTwo]_vars

\* The scheduling of one call.  The effect runs map() and Promise.all to the
\* end without yielding, and a callback of .then on a fulfilled promise is
\* queued as a microtask and runs: these steps are taken once enabled.
\* Nothing obliges the network to answer, so Settle has no such condition.
Fairness ==
    /\ WF_vars(\E i \in Pairings : Issue(i))
    /\ WF_vars(PromiseAll)
    /\ WF_vars(Deliver)

SpecLive == Spec /\ Fairness

----------------------------------------------------------------------------
(* Properties *)

Answered(i) == responses[i] # NoResponse
CycleSettled == \A i \in Pairings : fetches[i].state \in {"fulfilled", "rejected"}

\* C1: whatever the order in which the fetches settle, Promise.all holds the
\* entry of catalogue position i at index i, at every moment of the
\* collection, and fetch_all_prometheus_data resolves with exactly N+M
\* entries, the queries first and the range_queries after them, each list in
\* its own order.
C1_CatalogueOrder ==
    /\ \A i \in DOMAIN values : values[i] # Hole => values[i].query = QueryAt(i)
    /\ all_promise.state = "fulfilled" =>
          /\ Len(all_promise.value) = N + M
          /\ \A i \in 1 .. N : all_promise.value[i].query = queries[i]
          /\ \A j \in 1 .. M : all_promise.value[N + j].query = range_queries[j]

\* The last catalogue entry has settled and been collected while the first
\* is still in flight.
C1_Witness ==
    /\ N + M > 1
    /\ pc = "waiting"
    /\ fetches[1].state = "pending"
    /\ values[N + M] # Hole


\* The answers that carry a success envelope with a list of series; every
\* other answer is a failed fetch.
IsSuccessAnswer(r) ==
    \E res \in Results : r = HttpResponse(200, "OK", SuccessEnvelope(res))

\* C2: when fetch_all_prometheus_data has resolved, there are N+M entries;
\* the entry of every query whose fetch failed carries that query's own
\* definition and the failure mark (data undefined); the entry of every
\* other query carries its own definition and the series its own answer
\* held; and once every GET is answered the promise is fulfilled, so no
\* failure discards a sibling.
C2_FailureIsolation ==
    /\ (\A i \in Pairings : Answered(i)) => all_promise.state = "fulfilled"
    /\ all_promise.state = "fulfilled" =>
          /\ Len(all_promise.value) = N + M
          /\ \A i \in Pairings :
                LET e == all_promise.value[i]
                IN  /\ e.query = QueryAt(i)
                    /\ e.query.name = QueryAt(i).name
                    /\ IsSuccessAnswer(responses[i]) =>
                          e.data = responses[i].body.data.result
                    /\ ~IsSuccessAnswer(responses[i]) => e.data = Undefined

\* Exactly one instant query failed, with an error envelope, and every
\* other query succeeded.
C2_Witness ==
    /\ all_promise.state = "fulfilled"
    /\ \E i \in 1 .. N :
          /\ responses[i] = HttpResponse(200, "OK", ErrorEnvelope("bad query"))
          /\ \A j \in Pairings \ {i} : IsSuccessAnswer(responses[j])

\* C3: the promise fetch_all_prometheus_data returns is never rejected, nor
\* is any promise it collects; once every GET is answered, whatever the
\* answers, it is fulfilled.
C3_NeverRejects ==
    /\ all_promise.state # "rejected"
    /\ \A i \in Pairings : /\ fetches[i].state # "rejected"
                           /\ entries[i].state # "rejected"
    /\ (pc # "unmounted" /\ \A i \in Pairings : Answered(i)) =>
          all_promise.state \in {"fulfilled"}

\* Fulfilled after a transport failure, an error envelope and a malformed
\* body.
C3_Witness ==
    /\ all_promise.state = "fulfilled"
    /\ \E i \in Pairings : responses[i] = NetworkError
    /\ \E i \in Pairings :
          responses[i] = HttpResponse(200, "OK", ErrorEnvelope("bad query"))
    /\ \E i \in Pairings : responses[i] = HttpResponse(200, "OK", Unparseable)

\* C4: a fetch answered by the envelope {status: "error", error: m} fails
\* with an error whose message is exactly m.
C4_ServiceErrorCarriesMessage ==
    \A i \in Pairings : \A m \in Messages :
        responses[i] = HttpResponse(200, "OK", ErrorEnvelope(m)) =>
            /\ fetches[i].state = "rejected"
            /\ fetches[i].reason.message = m

\* C5: a range-mode request for a definition whose range_unit is not "day"
\* fails with UnsupportedRangeUnit when the request is built, and no GET is
\* sent for it.
C5_UnsupportedRangeUnit ==
    \A i \in Pairings :
        ( /\ IsRangeAt(i)
          /\ next > i
          /\ Has(QueryAt(i), "range_unit")
          /\ QueryAt(i).range_unit # "day" ) =>
            /\ fetches[i].state = "rejected"
            /\ fetches[i].reason.name = "UnsupportedRangeUnit"
            /\ \A k \in DOMAIN http : http[k].pairing # i

\* The failure of the taxonomy an answer stands for.
FailureCause(r) ==
    IF Has(r, "network_error")
    THEN "TransportError"
    ELSE IF Has(r.body, "status") /\ r.body.status = "error"
    THEN "ServiceError: " \o r.body.error
    ELSE "DecodeError"

\* C6: the entries of two queries whose fetches failed for different causes
\* differ in what they record of the failure.
C6_EntryCarriesError ==
    \A i, j \in Pairings :
        ( /\ all_promise.state = "fulfilled"
          /\ ~IsSuccessAnswer(responses[i])
          /\ ~IsSuccessAnswer(responses[j])
          /\ FailureCause(responses[i]) # FailureCause(responses[j]) ) =>
            all_promise.value[i].data # all_promise.value[j].data

\* C7: no answer is handled before every one of the N+M requests has been
\* issued, and the effect returns with all of them issued.
C7_AllIssuedBeforeAnyHandled ==
    /\ \A i \in Pairings : Answered(i) =>
          /\ \A j \in Pairings : fetches[j].state # "unstarted"
          /\ Len(http) = N + M
    /\ pc \in {"waiting", "done"} => Len(http) = N + M

\* All N+M requests are in flight at once.
C7_Witness ==
    /\ N + M > 1
    /\ Len(http) = N + M
    /\ \A i \in Pairings : fetches[i].state = "pending"

GetsFor(i) == Cardinality({k \in DOMAIN http : http[k].pairing = i})

\* C8: at every moment each catalogue entry has had exactly one GET if its
\* fetch has started and none otherwise, whatever the answers; when the
\* effect has returned, N+M GETs have been sent, and no more ever are.
C8_OneGetPerEntry ==
    /\ \A i \in Pairings :
          GetsFor(i) = IF fetches[i].state = "unstarted" THEN 0 ELSE 1
    /\ pc \in {"waiting", "done"} => Len(http) = N + M

\* The cycle is over, a fetch has failed, and N+M GETs were sent.
C8_Witness ==
    /\ pc = "done"
    /\ \E i \in Pairings : ~IsSuccessAnswer(responses[i])
    /\ Len(http) = N + M

\* C9: data_signal is the initial empty sequence and has not been written,
\* or it has been written once and holds the complete sequence of N+M
\* entries, every fetch having settled.
C9_AtomicWrite ==
    \/ /\ data_signal = << >>
       /\ writes = 0
    \/ /\ writes = 1
       /\ Len(data_signal) = N + M
       /\ CycleSettled
       /\ \A i \in Pairings : /\ data_signal[i] # Hole
                              /\ data_signal[i] = entries[i].value

\* The result has been stored.
C9_Witness ==
    /\ pc = "done"
    /\ writes = 1
    /\ Len(data_signal) = N + M
    /\ data_loaded_signal

NoRangeParameters(q) ==
    /\ ~Has(q, "range_offset")
    /\ ~Has(q, "range_unit")
    /\ ~Has(q, "range_step")

\* C10: for a definition without range parameters, the request built in
\* instant mode is one GET to the instant endpoint whose only parameter is
\* query, equal to the definition's expression.
C10_InstantRequest ==
    \A i \in Pairings :
        (~IsRangeAt(i) /\ NoRangeParameters(QueryAt(i)) /\ next > i) =>
            /\ GetsFor(i) = 1
            /\ \A k \in DOMAIN http : http[k].pairing = i =>
                  /\ http[k].url.base = InstantEndpoint
                  /\ DOMAIN http[k].url.search = {"query"}
                  /\ http[k].url.search.query = QueryAt(i).query

\* An instant-mode request for a definition without range parameters has
\* been issued.
C10_Witness ==
    \E i \in Pairings :
        /\ ~IsRangeAt(i)
        /\ NoRangeParameters(QueryAt(i))
        /\ GetsFor(i) = 1

\* The GETs of range mode for a definition with range_unit "day", a
\* range_offset and a range_step.
DayRangeGets ==
    {k \in DOMAIN http :
        /\ IsRangeAt(http[k].pairing)
        /\ Has(QueryAt(http[k].pairing), "range_unit")
        /\ QueryAt(http[k].pairing).range_unit = "day"
        /\ Has(QueryAt(http[k].pairing), "range_offset")
        /\ Has(QueryAt(http[k].pairing), "range_step")}

ExpectedData(r) ==
    IF IsSuccessAnswer(r) THEN r.body.data.result ELSE Undefined

\* The result p of a call that sent the GETs log and got the answers rs is
\* built from those answers and no others.
OwnResult(p, log, rs) ==
    /\ Len(log) <= N + M
    /\ \A i \in Pairings :
          Cardinality({k \in DOMAIN log : log[k].pairing = i}) <= 1
    /\ p.state # "unstarted" => Len(log) = N + M
    /\ p.state = "fulfilled" =>
          /\ Len(p.value) = N + M
          /\ \A i \in Pairings :
                /\ rs[i] # NoResponse
                /\ p.value[i] = Entry(QueryAt(i), ExpectedData(rs[i]))

\* C12: each of two calls of fetch_all_prometheus_data, one after the other
\* or overlapping, sends its own N+M GETs and resolves with N+M entries
\* built from the answers to its own GETs; no step changes the catalogue,
\* and no step changes the result a call has resolved with.
C12_IndependentCycles ==
    /\ [](/\ OwnResult(all_promise, http, responses)
          /\ OwnResult(second.all_promise, second.http, second.responses))
    /\ [][/\ queries' = queries
          /\ range_queries' = range_queries
          /\ all_promise.state = "fulfilled" => all_promise' = all_promise
          /\ second.all_promise.state = "fulfilled" =>
                second'.all_promise = second.all_promise]_vars

\* The second call has resolved while the first, begun before it, is still
\* waiting for an answer, and the two got different answers.
C12_Witness ==
    /\ all_promise.state = "pending"
    /\ second.all_promise.state = "fulfilled"
    /\ \E i \in Pairings :
          /\ Answered(i)
          /\ IsSuccessAnswer(responses[i])
          /\ ~IsSuccessAnswer(second.responses[i])

\* The calls of fetch_all_prometheus_data begun so far.
Calls ==
    (IF pc = "unmounted" THEN 0 ELSE 1)
    + (IF second.pc = "unmounted" THEN 0 ELSE 1)

\* C13: fetch_all_prometheus_data has been called exactly once for every
\* mount of App; no step that is not a mount, and so not the render that
\* follows the write to data_signal, begins a call.
C13_OncePerMount ==
    /\ [](Calls = mounts)
    /\ [][mounts' = mounts => Calls' = Calls]_vars

\* The result was stored and App has rendered again, showing "true".
C13_Witness ==
    /\ pc = "done"
    /\ writes = 1
    /\ rendered = "true"
    /\ Calls = 1

\* C14: a fetch answered by a success envelope is fulfilled with exactly the
\* series list of data.result, the same series in the same order, and the
\* entry of the query holds that list.
C14_SeriesVerbatim ==
    \A i \in Pairings : \A res \in Results :
        responses[i] = HttpResponse(200, "OK", SuccessEnvelope(res)) =>
            /\ fetches[i].state = "fulfilled"
            /\ fetches[i].value = res
            /\ fetches[i].value.items = res.items
            /\ entries[i].state = "fulfilled"
            /\ entries[i].value.query = QueryAt(i)
            /\ entries[i].value.data = res

\* One fetch returned the one series {cluster: "x"} with the sample
\* (1700000000, "4"), another a list of two series.
C14_Witness ==
    /\ \E i \in Pairings :
          /\ responses[i] = HttpResponse(200, "OK", SuccessEnvelope(Arr(<<Series1>>)))
          /\ Len(entries[i].value.data.items) = 1
          /\ entries[i].value.data.items[1].metric = [cluster |-> "x"]
          /\ entries[i].value.data.items[1].value = <<1700000000, "4">>
    /\ \E j \in Pairings :
          responses[j] = HttpResponse(200, "OK",
                                      SuccessEnvelope(Arr(<<Series1, Series2>>)))

\* The pairings whose request cannot be built: range mode, range_unit "day"
\* and no range_offset, so that the start date is invalid.
Unbuildable(i) ==
    /\ IsRangeAt(i)
    /\ Has(QueryAt(i), "range_unit")
    /\ QueryAt(i).range_unit = "day"
    /\ ~Has(QueryAt(i), "range_offset")

\* C15: a failure raised while the request is built gives a failed entry
\* for that query only: the promise of its map callback is fulfilled with
\* the failure mark, fetch_all_prometheus_data is not rejected, and once
\* every other fetch has settled it resolves with all N+M entries.
C15_ConstructionFailureCaught ==
    \A i \in Pairings :
        (Unbuildable(i) /\ next > i) =>
            /\ entries[i].state = "fulfilled"
            /\ entries[i].value = Entry(QueryAt(i), Undefined)
            /\ all_promise.state # "rejected"
            /\ (pc \in {"waiting", "done"} /\ CycleSettled) =>
                  /\ all_promise.state = "fulfilled"
                  /\ Len(all_promise.value) = N + M

EmptySuccess == HttpResponse(200, "OK", SuccessEnvelope(Arr(<< >>)))

\* C16: the entry of a query whose fetch succeeded with no series differs
\* from the entry the same query has when its fetch fails: the first holds
\* the empty list, the second the failure mark.
C16_EmptyIsNotFailed ==
    \A i, j \in Pairings :
        ( /\ entries[i].state = "fulfilled"
          /\ entries[j].state = "fulfilled"
          /\ responses[i] = EmptySuccess
          /\ ~IsSuccessAnswer(responses[j]) ) =>
            /\ entries[i].value.data = Arr(<< >>)
            /\ entries[i].value.data # entries[j].value.data
            /\ entries[i].value # Entry(QueryAt(i), entries[j].value.data)

\* One fetch has succeeded with no series and another has failed.
C16_Witness ==
    \E i, j \in Pairings :
        /\ entries[i].state = "fulfilled"
        /\ entries[j].state = "fulfilled"
        /\ responses[i] = EmptySuccess
        /\ responses[j] = NetworkError

\* C17: in every reachable state the loaded signal is true exactly when
\* data_signal is non-empty; it is false until a call of
\* fetch_all_prometheus_data has resolved and its entries have been written,
\* and no step takes it from true back to false, a second write included.
C17_LoadedIsNonEmpty ==
    /\ [](/\ data_loaded_signal = (data_signal # << >>)
          /\ data_loaded_signal = (writes >= 1)
          /\ data_loaded_signal =>
                \/ all_promise.state = "fulfilled"
                \/ second.all_promise.state = "fulfilled"
          /\ pc \in {"unmounted", "map"} => ~data_loaded_signal)
    /\ [][data_loaded_signal => data_loaded_signal']_vars

\* Both calls have written their entries and the flag is still true.
C17_Witness ==
    /\ writes = 2
    /\ data_loaded_signal
    /\ rendered = "true"

\* Whether built is a request of the given mode for definition q: the
\* endpoint of the mode, the expression, and the window when and only when
\* the mode is range.
WellFormed(built, q, is_range_query) ==
    /\ ~built.threw
    /\ built.url.base = (IF is_range_query THEN RangeEndpoint ELSE InstantEndpoint)
    /\ built.url.search.query = q.query
    /\ IF is_range_query
       THEN /\ DOMAIN built.url.search = {"query", "start", "end", "step"}
            /\ built.url.search.step = q.range_step
            /\ built.url.search.start.iso < built.url.search.end.iso
       ELSE DOMAIN built.url.search = {"query"}

\* C18: with the shipped catalogue every request is well-formed for its
\* mode.  Every entry of range_queries has range_unit "day", a positive whole
\* range_offset and a range_step, and no entry of queries has a range
\* parameter; at every clock each entry of queries builds a request to the
\* instant endpoint with query alone, and each entry of range_queries a
\* request to the range endpoint with start, end and step; and every GET that
\* was issued is of that form, one per entry reached.
C18_ShippedWellFormed ==
    /\ \A k \in DOMAIN ShippedRangeQueries :
          LET q == ShippedRangeQueries[k]
          IN  /\ Has(q, "range_unit") /\ q.range_unit = "day"
              /\ Has(q, "range_offset") /\ q.range_offset \in Nat \ {0}
              /\ Has(q, "range_step")
              /\ WellFormed(build_url(q, TRUE, clock), q, TRUE)
    /\ \A k \in DOMAIN ShippedQueries :
          LET q == ShippedQueries[k]
          IN  /\ NoRangeParameters(q)
              /\ WellFormed(build_url(q, FALSE, clock), q, FALSE)
    /\ \A i \in Pairings : next > i => GetsFor(i) = 1
    /\ \A k \in DOMAIN http :
          WellFormed([threw |-> FALSE, url |-> http[k].url],
                     QueryAt(http[k].pairing), IsRangeAt(http[k].pairing))

\* Every entry of the catalogue has been requested, in both modes, after the
\* clock has moved.
C18_Witness ==
    /\ next > N + M
    /\ clock > ClockStart
    /\ \E k \in DOMAIN http : IsRangeAt(http[k].pairing)
    /\ \E k \in DOMAIN http : ~IsRangeAt(http[k].pairing)

\* C19: as long as one request is unsettled, Promise.all is not fulfilled and
\* data_signal is empty, however many of the other requests have completed;
\* and once every request has settled, fetch_all_prometheus_data resolves
\* and the loaded signal becomes true.
C19_SettledThenLoaded ==
    /\ [](~CycleSettled =>
            /\ all_promise.state # "fulfilled"
            /\ data_signal = << >>
            /\ ~data_loaded_signal)
    /\ CycleSettled ~> (all_promise.state = "fulfilled" /\ data_loaded_signal)

\* Every request but one has been answered, Promise.all is waiting for the
\* last, and nothing has been written.
C19_Witness ==
    /\ pc = "waiting"
    /\ all_promise.state = "pending"
    /\ Cardinality({i \in Pairings : fetches[i].state = "pending"}) = 1
    /\ Cardinality({i \in Pairings : fetches[i].state = "fulfilled"}) = N + M - 1
    /\ data_signal = << >>

\* C20: the catalogue is not empty, and once the entries of a call have been
\* written the loaded signal is true and data_signal has N+M entries,
\* whatever the answers were, all of them failures included.
C20_LoadedDespiteFailures ==
    /\ N + M > 0
    /\ Len(ShippedQueries) + Len(ShippedRangeQueries) > 0
    /\ pc = "done" =>
          /\ Len(data_signal) = N + M
          /\ data_loaded_signal

\* Every fetch of the call failed, the entries were written and rendered.
C20_Witness ==
    /\ pc = "done"
    /\ \A i \in Pairings : Answered(i) /\ ~IsSuccessAnswer(responses[i])
    /\ \A i \in DOMAIN data_signal : data_signal[i].data = Undefined
    /\ data_loaded_signal
    /\ rendered = "true"

====
